---- MODULE Spec2Model ----
(***************************************************************************)
(* Model of the synthetic flat generator:                                  *)
(*   - BayerPatternConverter.standardize_pattern   (utils/camera_db.py)    *)
(*   - CameraDB resolver and field extraction      (utils/camera_db.py)    *)
(*   - extract_bayer_channels / combine_channels   (utils/raw_utils.py)    *)
(*   - the validation pass of main                 (create_flat.py)        *)
(*   - analyze_metadata                            (analyze_metadata.py)   *)
(* Strings are sequences of one-character strings.  A call's outcome is a  *)
(* record [kind, value]: kind "ok" carries the returned value, any other   *)
(* kind is the name of the Python exception that left the call.            *)
(***************************************************************************)
EXTENDS Integers, Sequences, FiniteSets, TLC

VARIABLES
    pattern,              \* standardize_pattern: the argument
    arrangement,          \* the 4 positions the argument was written from (<<>>: free text)
    std,                  \* standardize_pattern: the outcome, Pending before the call
    db_data,              \* CameraDB.db_data: the catalog, in declaration order
    file_metadata,        \* extract_metadata(nef_file) of the file queried
    ret,                  \* outcome of the CameraDB call, Pending before the call
    raw_data,             \* the mosaic handed to extract_bayer_channels
    codec_pattern,        \* the pattern argument of the codec calls
    channels,             \* the dictionary returned by extract_bayer_channels
    combined,             \* the array returned by combine_channels
    nef_files,            \* main: the batch, each file given by its metadata
    idx,                  \* main: position of the validation loop in nef_files
    master_flat_metadata, \* main: the baseline metadata
    bayer_pattern,        \* main: the baseline pattern
    pc,                   \* main: where the run is
    err,                  \* main: the exception that left the try block
    metadata_list,        \* analyze_metadata: the argument
    analysis              \* analyze_metadata: the report, Pending before the call

vars ==
    <<pattern, arrangement, std, db_data, file_metadata, ret, raw_data,
      codec_pattern, channels, combined, nef_files, idx, master_flat_metadata,
      bayer_pattern, pc, err, metadata_list, analysis>>

patternVars ==
    <<pattern, arrangement, std>>

catalogVars ==
    <<db_data, file_metadata, ret>>

codecVars ==
    <<raw_data, codec_pattern, channels, combined>>

mainVars ==
    <<nef_files, idx, master_flat_metadata, bayer_pattern, pc, err>>

analysisVars ==
    <<metadata_list, analysis>>

-----------------------------------------------------------------------------
(* Outcomes and Python's None                                              *)

None ==
    [kind |-> "None", value |-> <<>>]

Pending ==
    [kind |-> "pending", value |-> <<>>]

Ok(v) ==
    [kind |-> "ok", value |-> v]

Raise(exc, info) ==
    [kind |-> exc, value |-> info]

Str(s) ==
    [kind |-> "str", value |-> s]

\* the empty dict
NoMapping ==
    [l \in {} |-> None]

RECURSIVE Flatten(_)
Flatten(ss) ==
    IF ss = <<>> THEN <<>> ELSE Head(ss) \o Flatten(Tail(ss))

-----------------------------------------------------------------------------
(* Bounds                                                                  *)

MaxPieces ==
    5

MaxCameras ==
    2

MaxFields ==
    2

\* a batch has at most MaxFiles files
MaxFiles ==
    3

\* a mosaic has at most 2 * MaxHalf rows and 2 * MaxHalf columns
MaxHalf ==
    2

\* at most MaxLit samples of a mosaic are not zero
MaxLit ==
    2

-----------------------------------------------------------------------------
(* BayerPatternConverter                                                   *)

Words ==
    { <<"R", "E", "D">>, <<"G", "R", "E", "E", "N">>, <<"B", "L", "U", "E">> }

PATTERN_MAP_KEYS ==
    { <<"0">>, <<"1">>, <<"2">>, <<"R">>, <<"G">>, <<"B">> } \cup Words

PATTERN_MAP ==
    [ w \in PATTERN_MAP_KEYS |->
        CASE w \in { <<"0">>, <<"R">>, <<"R", "E", "D">> } -> "R"
          [] w \in { <<"1">>, <<"G">>, <<"G", "R", "E", "E", "N">> } -> "G"
          [] OTHER -> "B" ]

StripChars ==
    { "[", "]", ",", " " }

upper(c) ==
    CASE c = "r" -> "R" [] c = "e" -> "E" [] c = "d" -> "D" [] c = "g" -> "G"
      [] c = "n" -> "N" [] c = "b" -> "B" [] c = "l" -> "L" [] c = "u" -> "U"
      [] OTHER -> c

IsStripped(c) ==
    c \in StripChars

\* mutant: the .upper() of line 49 left out
clean_pattern_no_upper(p) ==
    SelectSeq(p, LAMBDA c : ~IsStripped(c))

clean_pattern(p) ==
    LET kept == SelectSeq(p, LAMBDA c : ~IsStripped(c))
    IN  [k \in 1..Len(kept) |-> upper(kept[k])]

startswith(word, prefix) ==
    /\ Len(prefix) <= Len(word)
    /\ SubSeq(word, 1, Len(prefix)) = prefix

IsWordPrefix(s) ==
    \E word \in Words : startswith(word, s)

\* the look-ahead loop: extends current_word while it stays a prefix of a word
RECURSIVE LookAhead(_, _, _)
LookAhead(clean, current_word, next_i) ==
    IF next_i <= Len(clean) /\ IsWordPrefix(Append(current_word, clean[next_i]))
    THEN LookAhead(clean, Append(current_word, clean[next_i]), next_i + 1)
    ELSE [current_word |-> current_word, next_i |-> next_i]

\* mutant: only too short a result is refused
CheckLength_at_least(result) ==
    IF Len(result) < 4
    THEN Raise("KeyError", "Invalid pattern length")
    ELSE Ok(result)

\* the final check of the word branch: exactly 4 letters were emitted
CheckLength(result) ==
    IF Len(result) # 4
    THEN Raise("KeyError", "Invalid pattern length")
    ELSE Ok(result)

\* mutant: a prefix that is no complete word is not retried letter by letter
RECURSIVE WordLoop_no_fallback(_, _, _, _)
WordLoop_no_fallback(p, clean, i, result) ==
    IF i > Len(clean)
    THEN CheckLength(result)
    ELSE LET char == clean[i]
             la   == LookAhead(clean, <<char>>, i + 1)
         IN  IF la.current_word \in PATTERN_MAP_KEYS
             THEN WordLoop_no_fallback(p, clean, la.next_i,
                                       Append(result, PATTERN_MAP[la.current_word]))
             ELSE Raise("KeyError", "Invalid pattern component")

\* the while loop over clean_pattern, from position i with result so far
RECURSIVE WordLoop(_, _, _, _)
WordLoop(p, clean, i, result) ==
    IF i > Len(clean)
    THEN CheckLength(result)
    ELSE LET char == clean[i]
             la   == LookAhead(clean, <<char>>, i + 1)
         IN  IF IsWordPrefix(<<char>>)
             THEN IF la.current_word \in PATTERN_MAP_KEYS
                  THEN WordLoop(p, clean, la.next_i,
                                Append(result, PATTERN_MAP[la.current_word]))
                  ELSE IF <<char>> \in PATTERN_MAP_KEYS
                       THEN WordLoop(p, clean, i + 1,
                                     Append(result, PATTERN_MAP[<<char>>]))
                       ELSE Raise("KeyError", "Invalid pattern component")
             ELSE IF <<char>> \in PATTERN_MAP_KEYS
                  THEN WordLoop(p, clean, i + 1,
                                Append(result, PATTERN_MAP[<<char>>]))
                  ELSE Raise("KeyError", "Invalid pattern component")

NumericDigits ==
    { "0", "1", "2" }

\* re.sub on anything but a str (None, a number) raises TypeError
standardize_pattern(arg) ==
    IF arg.kind # "str" THEN Raise("TypeError", "expected string") ELSE
    LET p     == arg.value
        clean == clean_pattern(p)
    IN  IF \A k \in 1..Len(clean) : clean[k] \in NumericDigits
        THEN IF \E k \in 1..Len(clean) : clean[k] \notin NumericDigits
             THEN Raise("KeyError", "Invalid numeric pattern")
             ELSE IF Len(clean) # 4
                  THEN Raise("KeyError", "Invalid numeric pattern length")
                  ELSE Ok([k \in 1..4 |-> PATTERN_MAP[<<clean[k]>>]])
        ELSE WordLoop(p, clean, 1, <<>>)

-----------------------------------------------------------------------------
(* CameraDB                                                                *)
(* A camera of the catalog is a record                                     *)
(*   [exiftool_properties  : Seq([group, key, value]),                     *)
(*    bayer_pattern        : Seq([group, name]),                           *)
(*    master_flat_metadata : Seq([group, name])].                          *)
(* A metadata mapping is a function from locators to values; the locator   *)
(* "group:key" is the pair <<group, key>> (no name holds a colon).         *)

Locator(group, key) ==
    <<group, key>>

\* dict.get(key): None when the key is absent
Get(metadata, key) ==
    IF key \in DOMAIN metadata THEN metadata[key] ELSE None

\* the dict built from the property list: a later entry of the same
\* group:key overwrites an earlier one
transform_exiftool_properties_to_dict(properties) ==
    LET keys == { Locator(properties[k].group, properties[k].key) :
                    k \in DOMAIN properties }
        last(l) == CHOOSE k \in DOMAIN properties :
                     /\ Locator(properties[k].group, properties[k].key) = l
                     /\ \A j \in DOMAIN properties :
                          Locator(properties[j].group, properties[j].key) = l
                              => j <= k
    IN  [l \in keys |-> properties[last(l)].value]

matches_camera(metadata, properties) ==
    LET metadata_dict == transform_exiftool_properties_to_dict(properties)
        matched_keys  == { key \in DOMAIN metadata_dict :
                             Get(metadata, key) = metadata_dict[key] }
    IN  Cardinality(matched_keys) = Cardinality(DOMAIN metadata_dict)

Camera(camera) ==
    [kind |-> "camera", value |-> camera]

\* the for loop of get_camera_config, from the i-th camera on
RECURSIVE ScanCameras(_, _, _)
ScanCameras(db, metadata, i) ==
    IF i > Len(db)
    THEN None
    ELSE IF matches_camera(metadata, db[i].exiftool_properties)
         THEN Camera(db[i])
         ELSE ScanCameras(db, metadata, i + 1)

\* mutant: a later matching camera replaces an earlier one
RECURSIVE ScanCamerasLast(_, _, _)
ScanCamerasLast(db, metadata, i) ==
    IF i < 1
    THEN None
    ELSE IF matches_camera(metadata, db[i].exiftool_properties)
         THEN Camera(db[i])
         ELSE ScanCamerasLast(db, metadata, i - 1)

get_camera_config_last_match(db, metadata) ==
    ScanCamerasLast(db, metadata, Len(db))

get_camera_config(db, metadata) ==
    ScanCameras(db, metadata, 1)

\* mutant: metadata[pattern_key] instead of metadata.get(pattern_key)
get_bayer_pattern_subscript(db, metadata) ==
    LET camera_config == get_camera_config(db, metadata)
    IN  IF camera_config = None
        THEN Ok(None)
        ELSE LET pattern_config == camera_config.value.bayer_pattern[1]
                 pattern_key == Locator(pattern_config.group, pattern_config.name)
             IN  IF pattern_key \in DOMAIN metadata
                 THEN Ok(metadata[pattern_key])
                 ELSE Raise("KeyError", pattern_key)

get_bayer_pattern(db, metadata) ==
    LET camera_config == get_camera_config(db, metadata)
    IN  IF camera_config = None
        THEN Ok(None)
        ELSE LET pattern_config == camera_config.value.bayer_pattern[1]
                 pattern_key == Locator(pattern_config.group, pattern_config.name)
             IN  Ok(Get(metadata, pattern_key))

\* the for loop of get_master_flat_metadata over the declared fields
RECURSIVE CollectFields(_, _, _, _)
CollectFields(fields, metadata, k, result) ==
    IF k > Len(fields)
    THEN result
    ELSE LET key == Locator(fields[k].group, fields[k].name)
         IN  IF key \in DOMAIN metadata
             THEN CollectFields(fields, metadata, k + 1,
                    [l \in DOMAIN result \cup {key} |->
                        IF l = key THEN metadata[key] ELSE result[l]])
             ELSE CollectFields(fields, metadata, k + 1, result)

\* set(camera_config['master_flat_metadata']): the entries are dicts, which
\* are not hashable, so building the set of a non-empty list raises
SetOfFieldDicts(fields) ==
    IF fields = <<>>
    THEN Ok({})
    ELSE Raise("TypeError", "unhashable type: 'dict'")

\* line 235: the f-string of the message is evaluated before ValueError is
\* constructed
MissingFieldsError(fields, result) ==
    LET declared == SetOfFieldDicts(fields)
    IN  IF declared.kind # "ok"
        THEN declared
        ELSE Raise("ValueError", declared.value \ DOMAIN result)

\* mutant: the strict check applied whatever the flag says
get_master_flat_metadata_always_strict(db, metadata, allow_subset) ==
    LET camera_config == get_camera_config(db, metadata)
    IN  IF camera_config = None
        THEN Ok(NoMapping)
        ELSE LET fields == camera_config.value.master_flat_metadata
                 result == CollectFields(fields, metadata, 1, NoMapping)
             IN  IF Len(fields) # Cardinality(DOMAIN result)
                 THEN MissingFieldsError(fields, result)
                 ELSE Ok(result)

get_master_flat_metadata(db, metadata, allow_subset) ==
    LET camera_config == get_camera_config(db, metadata)
    IN  IF camera_config = None
        THEN Ok(NoMapping)
        ELSE LET fields == camera_config.value.master_flat_metadata
                 result == CollectFields(fields, metadata, 1, NoMapping)
             IN  IF ~allow_subset /\ ~(Len(fields) = Cardinality(DOMAIN result))
                 THEN MissingFieldsError(fields, result)
                 ELSE Ok(result)

-----------------------------------------------------------------------------
(* raw_utils: a 2D array is [shape |-> <<rows, cols>>, at |-> samples],     *)
(* at being indexed by <<row, col>> from 0                                 *)

Indices(shape) ==
    (0..(shape[1] - 1)) \X (0..(shape[2] - 1))

\* number of indices start, start + 2, ... below n
SliceLen(n, start) ==
    IF n <= start THEN 0 ELSE (n - start + 1) \div 2

\* a[row0::2, col0::2]
Slice2(a, row0, col0) ==
    LET shape == <<SliceLen(a.shape[1], row0), SliceLen(a.shape[2], col0)>>
    IN  [shape |-> shape,
         at    |-> [rc \in Indices(shape) |->
                        a.at[<<2 * rc[1] + row0, 2 * rc[2] + col0>>]]]

\* np.stack of two planes: they must have the same shape
Stack(g1, g2) ==
    IF g1.shape = g2.shape
    THEN Ok(<<g1, g2>>)
    ELSE Raise("ValueError", "all input arrays must have the same shape")

\* mutant: the two green slices taken from each other's positions
extract_bayer_channels_swapped_greens(raw, pattern_arg) ==
    LET R  == Slice2(raw, 0, 0)
        B  == Slice2(raw, 1, 1)
        G1 == Slice2(raw, 1, 0)
        G2 == Slice2(raw, 0, 1)
        G  == Stack(G1, G2)
    IN  IF G.kind # "ok"
        THEN G
        ELSE Ok([R |-> R, G |-> G.value, B |-> B])

\* the <<row, column>> offsets of the four positions of a pattern
PatternOffsets ==
    << <<0, 0>>, <<0, 1>>, <<1, 0>>, <<1, 1>> >>

\* the offset of the nth position at which the pattern has the letter
OffsetOf(pattern_arg, letter, nth, default) ==
    LET ks == SelectSeq(<<1, 2, 3, 4>>, LAMBDA k : pattern_arg[k] = letter)
    IN  IF Len(ks) >= nth THEN PatternOffsets[ks[nth]] ELSE default

\* mutant: the slices taken where the pattern argument puts each colour
extract_bayer_channels_by_pattern(raw, pattern_arg) ==
    LET r  == OffsetOf(pattern_arg, "R", 1, <<0, 0>>)
        b  == OffsetOf(pattern_arg, "B", 1, <<1, 1>>)
        g1 == OffsetOf(pattern_arg, "G", 1, <<0, 1>>)
        g2 == OffsetOf(pattern_arg, "G", 2, <<1, 0>>)
        G  == Stack(Slice2(raw, g1[1], g1[2]), Slice2(raw, g2[1], g2[2]))
    IN  IF G.kind # "ok"
        THEN G
        ELSE Ok([R |-> Slice2(raw, r[1], r[2]), G |-> G.value,
                 B |-> Slice2(raw, b[1], b[2])])

\* lines 36-46; the pattern argument is not read
extract_bayer_channels(raw, pattern_arg) ==
    LET R  == Slice2(raw, 0, 0)
        B  == Slice2(raw, 1, 1)
        G1 == Slice2(raw, 0, 1)
        G2 == Slice2(raw, 1, 0)
        G  == Stack(G1, G2)
    IN  IF G.kind # "ok"
        THEN G
        ELSE Ok([R |-> R, G |-> G.value, B |-> B])

Float32Mantissa ==
    24

RECURSIVE Pow2(_)
Pow2(n) ==
    IF n = 0 THEN 1 ELSE 2 * Pow2(n - 1)

RECURSIVE BitLength(_)
BitLength(n) ==
    IF n = 0 THEN 0 ELSE 1 + BitLength(n \div 2)

\* the value a non-negative integer takes when stored as np.float32:
\* rounded to 24 significant bits, ties to even
ToFloat32(n) ==
    IF BitLength(n) <= Float32Mantissa
    THEN n
    ELSE LET ulp == Pow2(BitLength(n) - Float32Mantissa)
             q   == n \div ulp
             r   == n % ulp
         IN  IF 2 * r < ulp \/ (2 * r = ulp /\ q % 2 = 0)
             THEN q * ulp
             ELSE (q + 1) * ulp

\* the plane written to the samples of row parity a and column parity b
PlaneFor(channel_data, a, b) ==
    CASE a = 0 /\ b = 0 -> channel_data.R
      [] a = 1 /\ b = 1 -> channel_data.B
      [] a = 0 /\ b = 1 -> channel_data.G[1]
      [] OTHER          -> channel_data.G[2]

\* mutant: the two green planes written to each other's positions
PlaneForSwappedGreens(channel_data, a, b) ==
    CASE a = 0 /\ b = 0 -> channel_data.R
      [] a = 1 /\ b = 1 -> channel_data.B
      [] a = 0 /\ b = 1 -> channel_data.G[2]
      [] OTHER          -> channel_data.G[1]

combine_channels_swapped_greens(channel_data, pattern_arg) ==
    LET shape == <<channel_data.R.shape[1] * 2, channel_data.R.shape[2] * 2>>
    IN  Ok([shape |-> shape,
            at    |-> [rc \in Indices(shape) |->
                        ToFloat32(PlaneForSwappedGreens(channel_data,
                                    rc[1] % 2, rc[2] % 2)
                                    .at[<<rc[1] \div 2, rc[2] \div 2>>])]])

\* the four slice assignments need planes of the shape of the slice; the
\* planes of an extracted mosaic of even dimensions all have R's shape
combine_channels(channel_data, pattern_arg) ==
    LET shape == <<channel_data.R.shape[1] * 2, channel_data.R.shape[2] * 2>>
    IN  IF \E plane \in { channel_data.B, channel_data.G[1], channel_data.G[2] } :
              plane.shape # channel_data.R.shape
        THEN Raise("ValueError", "could not broadcast input array")
        ELSE Ok([shape |-> shape,
                 at    |-> [rc \in Indices(shape) |->
                             ToFloat32(PlaneFor(channel_data, rc[1] % 2, rc[2] % 2)
                                         .at[<<rc[1] \div 2, rc[2] \div 2>>])]])

-----------------------------------------------------------------------------
(* create_flat.main: the loop body of the validation pass                  *)

\* the dict comprehension of lines 100-108: master_flat_metadata[key] raises
\* KeyError for a key of the new file that the baseline does not hold
inconsistent_metadata_value(master, found, nef_file) ==
    IF \E key \in DOMAIN found : key \notin DOMAIN master
    THEN Raise("KeyError", DOMAIN found \ DOMAIN master)
    ELSE Ok([key \in { k \in DOMAIN found : master[k] # found[k] } |->
                [file |-> nef_file, expected |-> master[key], found |-> found[key]]])

\* line 115: standardize_pattern( ) is called without its argument
standardize_pattern_no_argument ==
    Raise("TypeError", "standardize_pattern() missing 1 required positional argument")

\* lines 96-110: the baseline after the check, or the exception raised
check_metadata(master, found, nef_file) ==
    IF master = NoMapping
    THEN Ok(found)
    ELSE LET diff == inconsistent_metadata_value(master, found, nef_file)
         IN  IF diff.kind # "ok"
             THEN diff
             ELSE IF diff.value # NoMapping
                  THEN Raise("ValueError", diff.value)
                  ELSE Ok(master)

\* lines 113-119: the baseline pattern after the check, or the exception
check_pattern(baseline, db, metadata, nef_file) ==
    LET got == get_bayer_pattern(db, metadata)
        file_bayer_pattern == standardize_pattern(got.value)
    IN  IF file_bayer_pattern.kind # "ok"
        THEN file_bayer_pattern
        ELSE IF baseline = None
             THEN standardize_pattern_no_argument
             ELSE IF baseline # Str(file_bayer_pattern.value)
                  THEN Raise("ValueError",
                             [file |-> nef_file, expected |-> baseline,
                              found |-> Str(file_bayer_pattern.value)])
                  ELSE Ok(baseline)

-----------------------------------------------------------------------------
(* analyze_metadata                                                        *)
(* A metadata value is a string, Str(s), or a dict, Dict(items): the       *)
(* sequence of its <<key, value>> items in insertion order, the keys being *)
(* distinct strings and the values strings.                                *)

Dict(items) ==
    [kind |-> "dict", value |-> items]

\* code points of the characters of the dict keys
ord(c) ==
    CASE c = "a" -> 97 [] c = "d" -> 100 [] c = "i" -> 105 [] c = "l" -> 108
      [] c = "v" -> 118 [] OTHER -> 0

\* s < t on Python strings
RECURSIVE StrLess(_, _)
StrLess(s, t) ==
    IF t = <<>> THEN FALSE
    ELSE IF s = <<>> THEN TRUE
    ELSE IF ord(Head(s)) # ord(Head(t)) THEN ord(Head(s)) < ord(Head(t))
    ELSE StrLess(Tail(s), Tail(t))

\* sort_keys=True: the items in ascending order of key
RECURSIVE SortKeys(_)
SortKeys(items) ==
    IF items = <<>>
    THEN <<>>
    ELSE LET least == CHOOSE k \in 1..Len(items) :
                          \A j \in 1..Len(items) :
                              j # k => StrLess(items[k][1], items[j][1])
             rest  == [j \in 1..(Len(items) - 1) |->
                          IF j < least THEN items[j] ELSE items[j + 1]]
         IN  <<items[least]>> \o SortKeys(rest)

Quoted(s) ==
    <<"\"">> \o s \o <<"\"">>

RECURSIVE JoinItems(_)
JoinItems(items) ==
    IF items = <<>>
    THEN <<>>
    ELSE Quoted(items[1][1]) \o <<":", " ">> \o Quoted(items[1][2])
         \o (IF Len(items) > 1 THEN <<",", " ">> ELSE <<>>)
         \o JoinItems(Tail(items))

\* json.dumps(value, sort_keys=True) of a dict of strings
json_dumps(items) ==
    <<"{">> \o JoinItems(SortKeys(items)) \o <<"}">>

\* lines 65-66: a dict value is replaced by its JSON text
stringified(value) ==
    IF value.kind = "dict" THEN Str(json_dumps(value.value)) ELSE value

\* mutant: the set keeps only the value added last
add_replacing(values, value) ==
    { value }

\* set.add
add(values, value) ==
    values \cup { value }

\* lines 62-67: the values of every field, compiled over the list in order
RECURSIVE CompileValues(_, _)
CompileValues(list, field_values) ==
    IF list = <<>>
    THEN field_values
    ELSE LET metadata == Head(list)
         IN  CompileValues(Tail(list),
                 [key \in DOMAIN field_values \cup DOMAIN metadata |->
                     LET values == IF key \in DOMAIN field_values
                                   THEN field_values[key]
                                   ELSE {}
                     IN  IF key \in DOMAIN metadata
                         THEN add(values, stringified(metadata[key]))
                         ELSE values])

\* list(values): every element of the set once, in the set's iteration order
Listings(values) ==
    { f \in [1..Cardinality(values) -> values] :
        \A i, j \in 1..Cardinality(values) : i # j => f[i] # f[j] }

\* lines 59-75: the reports the call can return, one per iteration order
analyze_metadata(list) ==
    LET field_values == CompileValues(list, NoMapping)
        Orders == { o \in [DOMAIN field_values ->
                             UNION { Listings(field_values[f]) :
                                       f \in DOMAIN field_values }] :
                      \A f \in DOMAIN field_values :
                          o[f] \in Listings(field_values[f]) }
    IN  { [field \in DOMAIN field_values |->
              [distinct_values_count |-> Cardinality(field_values[field]),
               values                |-> o[field]]] : o \in Orders }

-----------------------------------------------------------------------------
(* Inputs of standardize_pattern                                           *)

Colours ==
    { "R", "G", "B" }

Arrangements ==
    [1..4 -> Colours]

ColourName(c) ==
    CASE c = "R" -> <<"R", "E", "D">>
      [] c = "G" -> <<"G", "R", "E", "E", "N">>
      [] OTHER   -> <<"B", "L", "U", "E">>

ColourCode(c) ==
    CASE c = "R" -> "0" [] c = "G" -> "1" [] OTHER -> "2"

lower(c) ==
    CASE c = "R" -> "r" [] c = "E" -> "e" [] c = "D" -> "d" [] c = "G" -> "g"
      [] c = "N" -> "n" [] c = "B" -> "b" [] c = "L" -> "l" [] c = "U" -> "u"
      [] OTHER -> c

\* a casing: which letter positions of a word are written in lower case
CaseMasks ==
    [1..5 -> BOOLEAN]

Cased(word, m) ==
    [k \in 1..Len(word) |-> IF m[k] THEN lower(word[k]) ELSE word[k]]

DelimitStyles ==
    { "packed", "spaced", "grouped", "listed" }

\* four items written packed, space separated, as [a,b][c,d] or as [a,b,c,d]
Delimit(it, style) ==
    CASE style = "packed"  -> it[1] \o it[2] \o it[3] \o it[4]
      [] style = "spaced"  -> it[1] \o <<" ">> \o it[2] \o <<" ">> \o it[3]
                                    \o <<" ">> \o it[4]
      [] style = "grouped" -> <<"[">> \o it[1] \o <<",">> \o it[2] \o <<"]", "[">>
                                     \o it[3] \o <<",">> \o it[4] \o <<"]">>
      [] OTHER             -> <<"[">> \o it[1] \o <<",">> \o it[2] \o <<",">>
                                     \o it[3] \o <<",">> \o it[4] \o <<"]">>

EncodeNames(t, m) ==
    Delimit([k \in 1..4 |-> Cased(ColourName(t[k]), m)], "grouped")

EncodeLetters(t, style, m) ==
    Delimit([k \in 1..4 |-> <<IF m[k] THEN lower(t[k]) ELSE t[k]>>], style)

EncodeCodes(t, style) ==
    Delimit([k \in 1..4 |-> <<ColourCode(t[k])>>], style)

EncodingsOf(t) ==
    { EncodeNames(t, m) : m \in CaseMasks }
    \cup { EncodeLetters(t, st, m) : st \in DelimitStyles, m \in CaseMasks }
    \cup { EncodeCodes(t, st) : st \in DelimitStyles }

\* free text: up to MaxPieces pieces written one after the other
Pieces ==
    { <<"R">>, <<"E">>, <<"R", "E", "D">>, <<"g">>, <<"1">>, <<"3">>, <<",">> }

FreeTexts ==
    { Flatten(ps) : ps \in UNION { [1..n -> Pieces] : n \in 0..MaxPieces } }

-----------------------------------------------------------------------------
(* Catalogs and metadata mappings                                          *)

NIKON ==
    <<"N", "I", "K", "O", "N">>

CANON ==
    <<"C", "A", "N", "O", "N">>

D5600 ==
    <<"D", "5", "6", "0", "0">>

RGGB ==
    <<"R", "G", "G", "B">>

AUTO ==
    <<"A", "u", "t", "o">>

\* the sequences over S that use no element twice
InjectiveSeqs(S) ==
    UNION { { f \in [1..n -> S] : \A i, j \in 1..n : i # j => f[i] # f[j] } :
            n \in 0..Cardinality(S) }

\* the mappings that give some of the locators of choice a value it allows
Mappings(choice) ==
    UNION { { f \in [D -> UNION { choice[l] : l \in D }] :
                \A l \in D : f[l] \in choice[l] } :
            D \in SUBSET DOMAIN choice }

\* identity predicates a catalog entry may state; a YAML null is None
IdPredicates ==
    { [group |-> "EXIF", key |-> "Make",  value |-> Str(NIKON)],
      [group |-> "EXIF", key |-> "Model", value |-> Str(D5600)],
      [group |-> "EXIF", key |-> "Model", value |-> None] }

PropertyLists ==
    InjectiveSeqs(IdPredicates)

CFAPatternField ==
    [group |-> "EXIF", name |-> "CFAPattern"]

WhiteBalanceField ==
    [group |-> "MakerNotes", name |-> "WhiteBalance"]

ISOField ==
    [group |-> "EXIF", name |-> "ISO"]

FieldNames ==
    { CFAPatternField, WhiteBalanceField, ISOField }

ResolveCameras ==
    { [exiftool_properties  |-> ps,
       bayer_pattern        |-> <<CFAPatternField>>,
       master_flat_metadata |-> <<>>] : ps \in PropertyLists }

ResolveCatalogs ==
    UNION { [1..n -> ResolveCameras] : n \in 0..MaxCameras }

ResolveMetadata ==
    Mappings([l \in { <<"EXIF", "Make">>, <<"EXIF", "Model">>,
                      <<"MakerNotes", "Make">> } |->
                CASE l = <<"EXIF", "Make">>  -> { Str(NIKON), Str(CANON) }
                  [] l = <<"EXIF", "Model">> -> { Str(D5600) }
                  [] OTHER                   -> { Str(NIKON) }])

\* the master-flat list may name a locator twice
FieldLists ==
    UNION { [1..n -> FieldNames] : n \in 0..MaxFields }

BayerLists ==
    InjectiveSeqs(FieldNames) \ { <<>> }

NikonCameras ==
    { [exiftool_properties  |-> << [group |-> "EXIF", key |-> "Make",
                                    value |-> Str(NIKON)] >>,
       bayer_pattern        |-> bp,
       master_flat_metadata |-> fs] : bp \in BayerLists, fs \in FieldLists }

CanonCamera ==
    [exiftool_properties  |-> << [group |-> "EXIF", key |-> "Make",
                                  value |-> Str(CANON)] >>,
     bayer_pattern        |-> <<WhiteBalanceField>>,
     master_flat_metadata |-> <<ISOField>>]

FieldCatalogs ==
    { <<c>> : c \in NikonCameras } \cup { <<CanonCamera, c>> : c \in NikonCameras }

FieldMetadata ==
    Mappings([l \in { <<"EXIF", "Make">>, <<"EXIF", "CFAPattern">>,
                      <<"MakerNotes", "WhiteBalance">>, <<"EXIF", "ISO">> } |->
                IF l = <<"EXIF", "Make">>
                THEN { Str(NIKON), Str(CANON) }
                ELSE { Str(RGGB), Str(AUTO) }])

-----------------------------------------------------------------------------
(* Mosaics                                                                 *)

\* raw_image holds unsigned 16-bit samples; the largest one
MaxSample ==
    65535

EvenShapes ==
    { <<2 * h, 2 * w>> : h \in 1..MaxHalf, w \in 1..MaxHalf }

\* the sets of at most MaxLit positions of a mosaic of this shape
LitSets(shape) ==
    { { f[k] : k \in 1..MaxLit } : f \in [1..MaxLit -> Indices(shape)] }
    \cup { {} }

\* the mosaics that are MaxSample at the lit positions and 0 elsewhere
Mosaics ==
    UNION { { [shape |-> sh,
               at    |-> [rc \in Indices(sh) |->
                            IF rc \in L THEN MaxSample ELSE 0]] :
              L \in LitSets(sh) } :
            sh \in EvenShapes }

-----------------------------------------------------------------------------
(* Batches                                                                 *)

MANUAL ==
    <<"M", "a", "n", "u", "a", "l">>

GRBG ==
    <<"G", "R", "B", "G">>

BGGR ==
    <<"B", "G", "G", "R">>

GBRG ==
    <<"G", "B", "R", "G">>

\* the patterns of a Bayer sensor
BayerPatterns ==
    { RGGB, BGGR, GRBG, GBRG }

CODES_0112 ==
    <<"[", "0", ",", "1", ",", "1", ",", "2", "]">>

\* the two cameras of the sample catalog; the first lists its pattern field
\* among its master-flat fields, the second does not
SampleCamera(make) ==
    [exiftool_properties  |-> << [group |-> "EXIF", key |-> "Make",
                                  value |-> Str(make)] >>,
     bayer_pattern        |-> <<CFAPatternField>>,
     master_flat_metadata |-> IF make = NIKON
                              THEN <<CFAPatternField, WhiteBalanceField>>
                              ELSE <<WhiteBalanceField>>]

SampleCatalog ==
    << SampleCamera(NIKON), SampleCamera(CANON) >>

FileMappings ==
    Mappings([l \in { <<"EXIF", "Make">>, <<"EXIF", "CFAPattern">>,
                      <<"MakerNotes", "WhiteBalance">> } |->
                CASE l = <<"EXIF", "Make">>       -> { Str(NIKON), Str(CANON) }
                  [] l = <<"EXIF", "CFAPattern">> -> { Str(RGGB), Str(CODES_0112),
                                                       Str(GRBG) }
                  [] OTHER                        -> { Str(AUTO), Str(MANUAL) }])

\* the metadata of one file of a batch; every file states a CFA pattern
BatchMetadata ==
    { m \in FileMappings : <<"EXIF", "CFAPattern">> \in DOMAIN m }

Batches ==
    UNION { [1..n -> BatchMetadata] : n \in 0..MaxFiles }

-----------------------------------------------------------------------------
(* Metadata lists handed to analyze_metadata                               *)

\* a list has at most MaxMappings mappings
MaxMappings ==
    3

ISO_400 ==
    <<"4", "0", "0">>

ISO_800 ==
    <<"8", "0", "0">>

\* a value as exiftool -H gives it: the tag id and the value
TaggedISO(val) ==
    << << <<"i", "d">>, <<"0", "x", "8", "8", "2", "7">> >>,
       << <<"v", "a", "l">>, val >> >>

Reversed(items) ==
    [k \in 1..Len(items) |-> items[Len(items) + 1 - k]]

ISOValues ==
    { Str(ISO_400), Str(ISO_800),
      Dict(TaggedISO(ISO_400)), Dict(Reversed(TaggedISO(ISO_400))),
      Str(json_dumps(TaggedISO(ISO_400))),
      Dict(<< << <<"v", "a", "l">>, ISO_800 >> >>) }

AnalysisMappings ==
    Mappings([l \in { <<"EXIF", "Make">>, <<"EXIF", "ISO">> } |->
                IF l = <<"EXIF", "Make">> THEN { Str(NIKON) } ELSE ISOValues])

MetadataLists ==
    UNION { [1..n -> AnalysisMappings] : n \in 0..MaxMappings }

-----------------------------------------------------------------------------
(* Idle values of the parts a specification does not exercise              *)

IdlePattern ==
    /\ pattern = <<>>
    /\ arrangement = <<>>
    /\ std = Pending

NoCall ==
    [op |-> "none", strict |-> FALSE, out |-> Pending]

IdleCatalog ==
    /\ db_data = <<>>
    /\ file_metadata = NoMapping
    /\ ret = NoCall

IdleCodec ==
    /\ raw_data = <<>>
    /\ codec_pattern = <<>>
    /\ channels = Pending
    /\ combined = Pending

NoError ==
    [kind |-> "none", file |-> 0, value |-> <<>>]

IdleMain ==
    /\ nef_files = <<>>
    /\ idx = 0
    /\ master_flat_metadata = NoMapping
    /\ bayer_pattern = None
    /\ pc = "idle"
    /\ err = NoError

IdleAnalysis ==
    /\ metadata_list = <<>>
    /\ analysis = Pending

-----------------------------------------------------------------------------
(* Specification of the pattern normalizer                                 *)

InitPattern ==
    /\ \/ /\ arrangement \in Arrangements
          /\ pattern \in EncodingsOf(arrangement)
       \/ /\ arrangement = <<>>
          /\ pattern \in FreeTexts
    /\ std = Pending
    /\ IdleCatalog /\ IdleCodec /\ IdleMain /\ IdleAnalysis

Standardize ==
    /\ std = Pending
    /\ std' = standardize_pattern(Str(pattern))
    /\ UNCHANGED <<pattern, arrangement, catalogVars, codecVars, mainVars, analysisVars>>

NextPattern ==
    Standardize

SpecPattern ==
    InitPattern /\ [][NextPattern]_vars

-----------------------------------------------------------------------------
(* Specification of the camera catalog: one query of one file's metadata   *)

InitCatalog ==
    /\ \/ /\ db_data \in ResolveCatalogs
          /\ file_metadata \in ResolveMetadata
       \/ /\ db_data \in FieldCatalogs
          /\ file_metadata \in FieldMetadata
    /\ ret = NoCall
    /\ IdlePattern /\ IdleCodec /\ IdleMain /\ IdleAnalysis

GetCameraConfig ==
    /\ ret = NoCall
    /\ ret' = [op |-> "get_camera_config", strict |-> FALSE,
               out |-> Ok(get_camera_config(db_data, file_metadata))]
    /\ UNCHANGED <<db_data, file_metadata, patternVars, codecVars, mainVars, analysisVars>>

GetBayerPattern ==
    /\ ret = NoCall
    /\ ret' = [op |-> "get_bayer_pattern", strict |-> FALSE,
               out |-> get_bayer_pattern(db_data, file_metadata)]
    /\ UNCHANGED <<db_data, file_metadata, patternVars, codecVars, mainVars, analysisVars>>

GetMasterFlatMetadata ==
    /\ ret = NoCall
    /\ \E allow_subset \in BOOLEAN :
          ret' = [op |-> "get_master_flat_metadata", strict |-> ~allow_subset,
                  out |-> get_master_flat_metadata(db_data, file_metadata,
                                                  allow_subset)]
    /\ UNCHANGED <<db_data, file_metadata, patternVars, codecVars, mainVars, analysisVars>>

NextCatalog ==
    \/ GetCameraConfig
    \/ GetBayerPattern
    \/ GetMasterFlatMetadata

SpecCatalog ==
    InitCatalog /\ [][NextCatalog]_vars

-----------------------------------------------------------------------------
(* Specification of the mosaic codec: extract, then combine                *)

InitCodec ==
    /\ raw_data \in Mosaics
    /\ codec_pattern \in BayerPatterns
    /\ channels = Pending
    /\ combined = Pending
    /\ IdlePattern /\ IdleCatalog /\ IdleMain /\ IdleAnalysis

ExtractBayerChannels ==
    /\ channels = Pending
    /\ channels' = extract_bayer_channels(raw_data, codec_pattern)
    /\ UNCHANGED <<raw_data, codec_pattern, combined,
                   patternVars, catalogVars, mainVars, analysisVars>>

CombineChannels ==
    /\ channels.kind = "ok"
    /\ combined = Pending
    /\ combined' = combine_channels(channels.value, codec_pattern)
    /\ UNCHANGED <<raw_data, codec_pattern, channels,
                   patternVars, catalogVars, mainVars, analysisVars>>

NextCodec ==
    \/ ExtractBayerChannels
    \/ CombineChannels

SpecCodec ==
    InitCodec /\ [][NextCodec]_vars

-----------------------------------------------------------------------------
(* create_flat.main: the validation pass                                   *)

\* the body of the validation loop (lines 93-119) on one file: the baseline
\* after it, and the exception that left it, if any
validate_file(master, baseline, db, metadata, nef_file) ==
    LET found   == get_master_flat_metadata(db, metadata, FALSE)
        checked == IF found.kind # "ok"
                   THEN found
                   ELSE check_metadata(master, found.value, nef_file)
        pat     == check_pattern(baseline, db, metadata, nef_file)
    IN  IF checked.kind # "ok"
        THEN [master |-> master, pattern |-> baseline,
              err |-> [kind |-> checked.kind, file |-> nef_file,
                       value |-> checked.value]]
        ELSE IF pat.kind # "ok"
             THEN [master |-> checked.value, pattern |-> baseline,
                   err |-> [kind |-> pat.kind, file |-> nef_file,
                            value |-> pat.value]]
             ELSE [master |-> checked.value, pattern |-> pat.value,
                   err |-> NoError]

\* the validation loop (lines 92-119) from the k-th file of the list on
RECURSIVE validation_loop(_, _, _, _, _)
validation_loop(db, files, k, master, baseline) ==
    IF k > Len(files)
    THEN [master |-> master, pattern |-> baseline, err |-> NoError]
    ELSE LET after == validate_file(master, baseline, db, files[k], k)
         IN  IF after.err # NoError
             THEN after
             ELSE validation_loop(db, files, k + 1, after.master, after.pattern)

\* mutant: the exception is swallowed and the run goes on to the second loop
on_exception_go_on ==
    "process"

\* an exception raised in the try block leaves it for the finally block
on_exception ==
    "finally"

-----------------------------------------------------------------------------
(* Specification of main: one run over a batch.  nef_files[k] is the        *)
(* metadata of the k-th file of the list; a file is named by its position. *)

Init ==
    /\ nef_files \in Batches
    /\ db_data = SampleCatalog
    /\ idx = 0
    /\ master_flat_metadata = NoMapping
    /\ bayer_pattern = None
    /\ pc = "start"
    /\ err = NoError
    /\ file_metadata = NoMapping
    /\ ret = NoCall
    /\ IdlePattern /\ IdleCodec /\ IdleAnalysis

\* get_nef_files: an empty listing is an error
GetNefFiles ==
    /\ pc = "start"
    /\ IF nef_files = <<>>
       THEN /\ pc' = on_exception
            /\ err' = [kind |-> "ValueError", file |-> 0, value |-> "No NEF files found"]
            /\ idx' = idx
       ELSE /\ pc' = "validate"
            /\ idx' = 1
            /\ err' = err
    /\ UNCHANGED <<nef_files, master_flat_metadata, bayer_pattern,
                   patternVars, catalogVars, codecVars, analysisVars>>

\* one iteration of the validation loop (lines 92-119), on nef_files[idx]
ValidateFile ==
    /\ pc = "validate"
    /\ idx <= Len(nef_files)
    /\ LET after == validate_file(master_flat_metadata, bayer_pattern, db_data,
                                  nef_files[idx], idx)
       IN  /\ master_flat_metadata' = after.master
           /\ bayer_pattern' = after.pattern
           /\ err' = after.err
           /\ IF after.err # NoError
              THEN /\ pc' = on_exception
                   /\ idx' = idx
              ELSE /\ pc' = IF idx = Len(nef_files) THEN "process" ELSE "validate"
                   /\ idx' = idx + 1
    /\ UNCHANGED <<nef_files, patternVars, catalogVars, codecVars, analysisVars>>

\* the finally block: the run ends, with the exception if there is one
Finally ==
    /\ pc = "finally"
    /\ pc' = "done"
    /\ UNCHANGED <<nef_files, idx, master_flat_metadata, bayer_pattern, err,
                   patternVars, catalogVars, codecVars, analysisVars>>

\* pc = "process" is where the processing pass (lines 126-133) would start
\* once the validation loop has run over every file.
Next ==
    \/ GetNefFiles
    \/ ValidateFile
    \/ Finally

Spec ==
    Init /\ [][Next]_vars

-----------------------------------------------------------------------------
(* Specification of the metadata analysis: one call of analyze_metadata    *)

InitAnalysis ==
    /\ metadata_list \in MetadataLists
    /\ analysis = Pending
    /\ IdlePattern /\ IdleCatalog /\ IdleCodec /\ IdleMain

AnalyzeMetadata ==
    /\ analysis = Pending
    /\ \E report \in analyze_metadata(metadata_list) : analysis' = Ok(report)
    /\ UNCHANGED <<metadata_list, patternVars, catalogVars, codecVars, mainVars>>

NextAnalysis ==
    AnalyzeMetadata

SpecAnalysis ==
    InitAnalysis /\ [][NextAnalysis]_vars

-----------------------------------------------------------------------------
(* Claims about the pattern normalizer                                     *)

\* C1: every supported encoding of a four-position arrangement (colour names
\* in any casing, single letters, numeric codes; packed or delimited) is
\* normalized to the same result, the four letters of the arrangement in the
\* order in which the input gives them.
C1_EncodingsNormalizeIdentically ==
    ( /\ arrangement \in Arrangements
      /\ pattern \in EncodingsOf(arrangement)
      /\ std # Pending )
    => std = Ok(arrangement)

TitleCase ==
    [k \in 1..5 |-> k > 1]

C1_Witness ==
    /\ arrangement = <<"G", "R", "B", "G">>
    /\ pattern = EncodeNames(arrangement, TitleCase)
    /\ std = Ok(<<"G", "R", "B", "G">>)

\* The positions a cleaned string denotes, read off the vocabulary alone:
\* s denotes n positions iff it is n vocabulary entries written one after
\* the other.
RECURSIVE Denotes(_, _)
Denotes(s, n) ==
    IF n = 0
    THEN s = <<>>
    ELSE \E w \in PATTERN_MAP_KEYS :
            /\ startswith(s, w)
            /\ Denotes(SubSeq(s, Len(w) + 1, Len(s)), n - 1)

Digits ==
    { "0", "1", "2", "3", "4", "5", "6", "7", "8", "9" }

\* C2: standardize_pattern raises KeyError, and returns nothing, for every
\* input whose cleaned form does not denote exactly 4 positions (the empty
\* string included), holds a token outside the vocabulary, or holds a digit
\* other than 0, 1, 2.
C2_MalformedPatternRaises ==
    std # Pending =>
        LET clean == clean_pattern(pattern)
        IN  /\ ~Denotes(clean, 4) => std.kind = "KeyError"
            /\ (\A n \in 0..Len(clean) : ~Denotes(clean, n)) => std.kind = "KeyError"
            /\ (\E k \in 1..Len(clean) : clean[k] \in Digits \ NumericDigits)
                    => std.kind = "KeyError"
            /\ pattern = <<>> => std.kind = "KeyError"

C2_Witness ==
    /\ pattern = <<"g", "g", "R", "E", "D", "R", "g">>
    /\ std.kind = "KeyError"

\* C15: when the cleaned pattern is not made only of the digits 0/1/2, the
\* tokens are letters and colour words only: a cleaned string that holds a
\* digit besides letters (R112, 0GG2) raises KeyError.
C15_MixedDigitsAndLettersRaise ==
    std # Pending =>
        LET clean == clean_pattern(pattern)
        IN  ( /\ \E k \in 1..Len(clean) : clean[k] \notin NumericDigits
              /\ \E k \in 1..Len(clean) : clean[k] \in Digits )
            => std.kind = "KeyError"

\* C21: standardize_pattern returns every four-letter string over R, G, B
\* unchanged, and normalizing an accepted result again returns that result.
C21_IdentityOnCanonicalPatterns ==
    std # Pending =>
        /\ pattern \in Arrangements => std = Ok(pattern)
        /\ std.kind = "ok" => /\ std.value \in Arrangements
                              /\ standardize_pattern(Str(std.value)) = std

C21_Witness ==
    /\ pattern = <<"G", "R", "G", "B">>
    /\ std = Ok(<<"G", "R", "G", "B">>)

-----------------------------------------------------------------------------
(* Claims about the camera catalog                                         *)

\* every identity predicate the camera declares is present in the metadata
\* with exactly the expected value
Satisfies(metadata, camera) ==
    \A k \in DOMAIN camera.exiftool_properties :
        LET prop == camera.exiftool_properties[k]
            l    == Locator(prop.group, prop.key)
        IN  l \in DOMAIN metadata /\ metadata[l] = prop.value

Matching(db, metadata) ==
    { i \in DOMAIN db : matches_camera(metadata, db[i].exiftool_properties) }

\* C6: a descriptor matches a metadata mapping iff every one of its identity
\* locators is present in the mapping with exactly the expected value;
\* get_camera_config returns the only descriptor the metadata satisfies and
\* None when it satisfies none (a missing locator included).
C6_MatchIffPresentAndEqual ==
    ret.op = "get_camera_config" =>
        /\ \A i \in DOMAIN db_data :
              matches_camera(file_metadata, db_data[i].exiftool_properties)
                  <=> Satisfies(file_metadata, db_data[i])
        /\ (\A i \in DOMAIN db_data : ~Satisfies(file_metadata, db_data[i]))
              => ret.out.value = None
        /\ \A i \in DOMAIN db_data :
              ( /\ Satisfies(file_metadata, db_data[i])
                /\ \A j \in DOMAIN db_data \ {i} :
                      ~Satisfies(file_metadata, db_data[j]) )
              => ret.out.value = Camera(db_data[i])

\* C7: get_camera_config returns the matching descriptor declared earliest
\* in the catalog, and None when no descriptor matches.
C7_FirstMatchWins ==
    ret.op = "get_camera_config" =>
        LET M == Matching(db_data, file_metadata)
        IN  IF M = {}
            THEN ret.out.value = None
            ELSE \E i \in M :
                    /\ \A j \in M : i <= j
                    /\ ret.out.value = Camera(db_data[i])

C7_Witness ==
    /\ ret.op = "get_camera_config"
    /\ Len(db_data) = 2
    /\ Matching(db_data, file_metadata) = {1, 2}
    /\ db_data[1] # db_data[2]
    /\ ret.out.value = Camera(db_data[1])

Resolved ==
    get_camera_config(db_data, file_metadata)

Declared ==
    { Locator(Resolved.value.master_flat_metadata[k].group,
              Resolved.value.master_flat_metadata[k].name) :
        k \in DOMAIN Resolved.value.master_flat_metadata }

\* C8: strict extraction for a resolved camera whose metadata lacks declared
\* master-flat locators fails with ValueError, and the message enumerates
\* exactly the absent locators.
C8_StrictNamesEveryMissingLocator ==
    ( /\ ret.op = "get_master_flat_metadata"
      /\ ret.strict
      /\ Resolved # None
      /\ Declared \ DOMAIN file_metadata # {} )
    => /\ ret.out.kind = "ValueError"
       /\ ret.out.value = Declared \ DOMAIN file_metadata

\* C22: strict extraction for a resolved camera fails iff a declared
\* master-flat locator is absent from the metadata; otherwise it returns the
\* metadata under every declared locator, also when the list declares a
\* locator more than once.
C22_StrictFailsIffLocatorAbsent ==
    ( /\ ret.op = "get_master_flat_metadata"
      /\ ret.strict
      /\ Resolved # None )
    => /\ ret.out.kind # "ok" <=> Declared \ DOMAIN file_metadata # {}
       /\ ret.out.kind = "ok" =>
             /\ DOMAIN ret.out.value = Declared
             /\ \A l \in Declared : ret.out.value[l] = file_metadata[l]

\* C9: non-strict extraction for a resolved camera never raises and returns
\* exactly the metadata restricted to the declared master-flat locators
\* that are present.
C9_NonStrictReturnsPresentSubset ==
    ( /\ ret.op = "get_master_flat_metadata"
      /\ ~ret.strict
      /\ Resolved # None )
    => /\ ret.out.kind = "ok"
       /\ DOMAIN ret.out.value = Declared \cap DOMAIN file_metadata
       /\ \A l \in DOMAIN ret.out.value : ret.out.value[l] = file_metadata[l]

C9_Witness ==
    /\ ret.op = "get_master_flat_metadata"
    /\ ~ret.strict
    /\ Resolved # None
    /\ Declared = { <<"EXIF", "CFAPattern">>, <<"MakerNotes", "WhiteBalance">> }
    /\ DOMAIN file_metadata = { <<"EXIF", "Make">>, <<"EXIF", "CFAPattern">>,
                                <<"EXIF", "ISO">> }
    /\ DOMAIN ret.out.value = { <<"EXIF", "CFAPattern">> }

PatternKey ==
    Locator(Resolved.value.bayer_pattern[1].group,
            Resolved.value.bayer_pattern[1].name)

\* C10: get_bayer_pattern returns None, without raising, when no descriptor
\* matches and when the matched descriptor's pattern locator is no key of
\* the metadata; otherwise it returns the metadata value under that locator.
C10_BayerPatternOrAbsent ==
    ret.op = "get_bayer_pattern" =>
        /\ ret.out.kind = "ok"
        /\ Resolved = None => ret.out.value = None
        /\ (Resolved # None /\ PatternKey \notin DOMAIN file_metadata)
              => ret.out.value = None
        /\ (Resolved # None /\ PatternKey \in DOMAIN file_metadata)
              => ret.out.value = file_metadata[PatternKey]

C10_Witness ==
    /\ ret.op = "get_bayer_pattern"
    /\ Resolved # None
    /\ PatternKey \notin DOMAIN file_metadata
    /\ ret.out = Ok(None)

-----------------------------------------------------------------------------
(* Claims about the mosaic codec                                           *)

\* C5: for every mosaic M of even height and width,
\* combine_channels(extract_bayer_channels(M)) has the shape of M and equals
\* M element by element.
C5_CombineExtractRoundTrip ==
    combined # Pending =>
        /\ combined.kind = "ok"
        /\ combined.value.shape = raw_data.shape
        /\ \A rc \in Indices(raw_data.shape) :
              combined.value.at[rc] = raw_data.at[rc]

C5_Witness ==
    /\ raw_data.shape = <<4, 4>>
    /\ raw_data.at[<<2, 3>>] = MaxSample
    /\ raw_data.at[<<3, 2>>] = 0
    /\ combined.kind = "ok"
    /\ combined.value.at[<<2, 3>>] = MaxSample
    /\ combined.value.at[<<3, 2>>] = 0

\* C19: for a mosaic of even height H and even width W, every plane that
\* extract_bayer_channels returns has shape (H/2, W/2), there are two green
\* planes, and element (i, j) of a plane is the sample at (2i, 2j) for R,
\* (2i, 2j+1) for green plane 0, (2i+1, 2j) for green plane 1 and
\* (2i+1, 2j+1) for B.
C19_ExtractAssignsByParity ==
    channels # Pending =>
        /\ channels.kind = "ok"
        /\ LET half == <<raw_data.shape[1] \div 2, raw_data.shape[2] \div 2>>
               ch   == channels.value
           IN  /\ ch.R.shape = half
               /\ ch.B.shape = half
               /\ Len(ch.G) = 2
               /\ ch.G[1].shape = half
               /\ ch.G[2].shape = half
               /\ \A ij \in Indices(half) :
                     /\ ch.R.at[ij]    = raw_data.at[<<2 * ij[1], 2 * ij[2]>>]
                     /\ ch.G[1].at[ij] = raw_data.at[<<2 * ij[1], 2 * ij[2] + 1>>]
                     /\ ch.G[2].at[ij] = raw_data.at[<<2 * ij[1] + 1, 2 * ij[2]>>]
                     /\ ch.B.at[ij]    = raw_data.at[<<2 * ij[1] + 1, 2 * ij[2] + 1>>]

C19_Witness ==
    /\ raw_data.shape = <<4, 4>>
    /\ raw_data.at[<<2, 3>>] = MaxSample
    /\ raw_data.at[<<3, 2>>] = 0
    /\ channels.kind = "ok"
    /\ channels.value.G[1].at[<<1, 1>>] = MaxSample
    /\ channels.value.G[2].at[<<1, 1>>] = 0
    /\ channels.value.R.shape = <<2, 2>>

\* the canonical patterns with one red, two green and one blue position
TwoGreenPatterns ==
    { a \in Arrangements :
        /\ Cardinality({ k \in 1..4 : a[k] = "G" }) = 2
        /\ \E k \in 1..4 : a[k] = "R"
        /\ \E k \in 1..4 : a[k] = "B" }

\* C20: whatever pattern the codec is called with, extract_bayer_channels
\* returns what it returns for any other canonical pattern, and so does
\* combine_channels.
C20_CodecIgnoresPattern ==
    /\ channels # Pending =>
          \A q \in TwoGreenPatterns :
              extract_bayer_channels(raw_data, q) = channels
    /\ combined # Pending =>
          \A q \in TwoGreenPatterns :
              combine_channels(channels.value, q) = combined

C20_Witness ==
    /\ codec_pattern = BGGR
    /\ raw_data.shape = <<2, 4>>
    /\ raw_data.at[<<0, 0>>] = MaxSample
    /\ raw_data.at[<<1, 1>>] = 0
    /\ channels.kind = "ok"
    /\ channels.value.R.at[<<0, 0>>] = MaxSample
    /\ channels.value.B.at[<<0, 0>>] = 0
    /\ combined.kind = "ok"
    /\ combined.value.at[<<0, 0>>] = MaxSample

-----------------------------------------------------------------------------
(* Claims about the validation pass of main                                *)

FileCamera(k) ==
    get_camera_config(db_data, nef_files[k])

DeclaredOf(camera) ==
    { Locator(camera.value.master_flat_metadata[j].group,
              camera.value.master_flat_metadata[j].name) :
        j \in DOMAIN camera.value.master_flat_metadata }

FilePattern(k) ==
    standardize_pattern(get_bayer_pattern(db_data, nef_files[k]).value)

\* the k-th file resolves to the camera of the first file and carries every
\* declared master-flat field
SameCamera(k) ==
    /\ FileCamera(k) # None
    /\ FileCamera(k) = FileCamera(1)
    /\ DeclaredOf(FileCamera(k)) \subseteq DOMAIN nef_files[k]

\* ... and has the first file's values and the first file's pattern
Agrees(k) ==
    /\ SameCamera(k)
    /\ \A l \in DeclaredOf(FileCamera(k)) : nef_files[k][l] = nef_files[1][l]
    /\ FilePattern(k).kind = "ok"
    /\ FilePattern(k) = FilePattern(1)

ValidationOver ==
    pc \notin { "start", "validate" }

\* C3: a non-empty batch whose files all resolve to the same descriptor,
\* carry every declared master-flat field with the same value and have the
\* same normalized pattern passes validation without error, with the
\* baseline metadata and the baseline pattern established.
C3_ConsistentBatchValidates ==
    ( /\ nef_files # <<>>
      /\ \A k \in DOMAIN nef_files : Agrees(k)
      /\ ValidationOver )
    => /\ err = NoError
       /\ DOMAIN master_flat_metadata = DeclaredOf(FileCamera(1))
       /\ \A l \in DOMAIN master_flat_metadata :
             master_flat_metadata[l] = nef_files[1][l]
       /\ bayer_pattern = Str(FilePattern(1).value)

\* C4: when the first k-1 files (k >= 2) agree with the baseline and the
\* k-th differs from it in the value of a declared master-flat key,
\* validating the k-th file raises ValueError, and the report gives, under
\* that key, the k-th file, the baseline value and the value found.
C4_DivergingFileReported ==
    \A k \in 2..Len(nef_files) :
        ( /\ \A j \in 1..(k - 1) : Agrees(j)
          /\ SameCamera(k)
          /\ \E l \in DeclaredOf(FileCamera(k)) : nef_files[k][l] # nef_files[1][l]
          /\ ValidationOver )
        => /\ err.kind = "ValueError"
           /\ err.file = k
           /\ \A l \in DeclaredOf(FileCamera(k)) :
                 nef_files[k][l] # nef_files[1][l]
                     => /\ l \in DOMAIN err.value
                        /\ err.value[l] = [file |-> k, expected |-> nef_files[1][l],
                                           found |-> nef_files[k][l]]

\* the k-th file resolves to the first file's camera and has the first
\* file's values for every declared master-flat field
SameValues(k) ==
    /\ SameCamera(k)
    /\ \A l \in DeclaredOf(FileCamera(k)) : nef_files[k][l] = nef_files[1][l]

\* C11: when the first k-1 files (k >= 2) agree with the baseline and the
\* k-th has the baseline's metadata values but a normalized pattern that is
\* not string-equal to the baseline pattern (GRBG against RGGB), validating
\* the k-th file raises ValueError, and the error gives the k-th file, the
\* baseline pattern and the pattern found.
C11_PatternMismatchReported ==
    \A k \in 2..Len(nef_files) :
        ( /\ \A j \in 1..(k - 1) : Agrees(j)
          /\ SameValues(k)
          /\ FilePattern(k).kind = "ok"
          /\ FilePattern(k) # FilePattern(1)
          /\ ValidationOver )
        => /\ err.kind = "ValueError"
           /\ err.file = k
           /\ err.value = [file |-> k, expected |-> Str(FilePattern(1).value),
                           found |-> Str(FilePattern(k).value)]

\* C13: once the first file of the list has been handled, and that file
\* resolves to a camera, carries every declared master-flat field and has a
\* valid pattern, the baseline metadata is the first file's strictly
\* extracted mapping and the baseline pattern is the first file's normalized
\* pattern, whatever files come after it.
C13_BaselineIsFirstFile ==
    ( /\ nef_files # <<>>
      /\ Agrees(1)
      /\ (idx > 1 \/ ValidationOver) )
    => /\ master_flat_metadata =
             get_master_flat_metadata(db_data, nef_files[1], FALSE).value
       /\ bayer_pattern = Str(FilePattern(1).value)

\* the k-th file resolves to the camera of the first file
ResolvesAsFirst(k) ==
    /\ FileCamera(k) # None
    /\ FileCamera(k) = FileCamera(1)

\* the baseline keys on which the k-th file diverges: absent from the file,
\* or present with another value than the first file's
Diverging(k) ==
    { l \in DeclaredOf(FileCamera(1)) :
        \/ l \notin DOMAIN nef_files[k]
        \/ nef_files[k][l] # nef_files[1][l] }

\* C16: when the first k-1 files (k >= 2) agree with the baseline and the
\* k-th file, of the same camera, diverges on some baseline keys (another
\* value, or the key missing), validating the k-th file raises ValueError
\* and the report has an entry for exactly the diverging keys.
C16_ReportAggregatesDivergingKeys ==
    \A k \in 2..Len(nef_files) :
        ( /\ \A j \in 1..(k - 1) : Agrees(j)
          /\ ResolvesAsFirst(k)
          /\ Diverging(k) # {}
          /\ ValidationOver )
        => /\ err.kind = "ValueError"
           /\ err.file = k
           /\ DOMAIN err.value = Diverging(k)

-----------------------------------------------------------------------------
(* Claims about the metadata analysis                                      *)

\* the fields that occur in at least one mapping of the list
Occurring ==
    UNION { DOMAIN metadata_list[k] : k \in DOMAIN metadata_list }

Holders(field) ==
    { k \in DOMAIN metadata_list : field \in DOMAIN metadata_list[k] }

\* a dict equals every dict of the same items, whatever their order
Canonical(value) ==
    IF value.kind = "dict" THEN Dict(SortKeys(value.value)) ELSE value

\* the distinct values a field takes over the list
Taken(field) ==
    { Canonical(metadata_list[k][field]) : k \in Holders(field) }

\* the same values, every dict replaced by its JSON text
TakenStringified(field) ==
    { stringified(metadata_list[k][field]) : k \in Holders(field) }

Reported(field) ==
    { analysis.value[field].values[k] :
        k \in DOMAIN analysis.value[field].values }

-----------------------------------------------------------------------------
(* Claims about the run of main as a whole                                 *)

\* C17: once validating a file has raised, the run is in or past the finally
\* block, the validation loop stands at the file that raised (no later file
\* is examined) and the processing pass is not started; the processing pass
\* is entered only without an error and with every file validated.
C17_ErrorAbortsRun ==
    /\ err # NoError => /\ pc \in { "finally", "done" }
                        /\ idx = err.file
    /\ pc = "process" => /\ err = NoError
                         /\ idx = Len(nef_files) + 1

C17_Witness ==
    /\ Len(nef_files) = 3
    /\ \A k \in 1..3 : Agrees(k)
    /\ pc = "done"
    /\ err.kind = "TypeError"
    /\ err.file = 1
    /\ idx = 1

\* the same files, listed in any order
Reorderings(files) ==
    { [k \in 1..Len(files) |-> files[p[k]]] : p \in Permutations(1..Len(files)) }

\* C18: a run over the same files listed in another order takes the same
\* file as baseline, ends with the same baseline metadata and raises the
\* same kind of error for the same file.
C18_BaselineIndependentOfListingOrder ==
    ( pc = "done" /\ nef_files # <<>> ) =>
        \A other \in Reorderings(nef_files) :
            LET run == validation_loop(db_data, other, 1, NoMapping, None)
            IN  /\ other[1] = nef_files[1]
                /\ run.master = master_flat_metadata
                /\ run.err.kind = err.kind
                /\ run.err.kind # "none" => other[run.err.file] = nef_files[err.file]

====
